---- MODULE Spec2Model ----
(***************************************************************************)
(* typing-net: the per-user classifier trainer's interrupt handling        *)
(* (models/baseline/classifier_keras_per_user.py), and the siamese         *)
(* verifier's metric functions and argument validation                     *)
(* (models/siamese_nn.py).                                                 *)
(***************************************************************************)
EXTENDS Integers, Sequences, FiniteSets, TLC

\* ------------------------------------------------------------------ bounds
\* n_users is read from the data file's name: 0..MaxUsers here.
MaxUsers == 3
\* Batches per epoch (ceil(len(X_train) / BATCH_SIZE)) depend on the data.
MaxBatches == 2
\* SIGINTs delivered in one run.
MaxSigints == 2

\* Length of the arrays given to accuracy_FAR_FRR.
MaxLen == 4
\* Length of the arrays given to the metric functions when either may be called.
MaxEnsLen == 6
\* Largest ensemble_size tried (2 .. 100 are valid; a size beyond the array's
\* length evaluates no window).
MaxEnsemble == 5

\* Largest --ensemble argument tried.
MaxEnsembleArg == 102

\* classifier_keras_per_user.py: EPOCHS = 25
EPOCHS == 25

VARIABLES
    \* --- per-user trainer (classifier_keras_per_user.py)
    pc,                 \* position of main(): loop, setup, fit_begin, fit, fit_done, evaluate
    status,             \* running | finished | exited (handler's exit()) | killed (KeyboardInterrupt)
    n_users,
    user_nr,
    stop_flag,
    training_complete,
    handler_installed,  \* signal.signal(SIGINT, handler) has run
    stop_training,      \* model.stop_training
    epoch,
    batch,              \* index of the batch in flight
    n_batches,          \* batches per epoch of the current user's training set
    batches_trained,    \* per user: batches completed by its fit
    accuracies,
    FARs,
    FRRs,
    sigints,            \* SIGINTs delivered so far
    intr_at,            \* per user: batches completed when a SIGINT first came in its fit loop, or -1
    stop_user,          \* the user during whose iteration stop_flag was set, or -1
    \* --- metric functions (siamese_nn.py)
    mpc,                \* idle | input (arrays built, no call yet) | returned
    fn,                 \* the metric function that was called
    y_true,             \* the caller's label array
    y_pred,             \* the caller's score array, in tenths (9 is 0.9)
    y_true0,            \* y_true as it was before the call
    y_pred0,            \* y_pred as it was before the call
    ensemble_size,
    counters,           \* the function's correct, FAR_errors, FRR_errors after its loop
    result,             \* what the call returned, or the exception it raised
    \* --- siamese trainer's main() (siamese_nn.py)
    spc,                \* position of main(): parse_args ... done, or rejected
    triplets_is_file,   \* os.path.isfile(args.triplets_path)
    model_is_file,      \* os.path.isfile(args.model_path)
    ensemble,           \* args.ensemble
    read_batches,       \* args.read_batches
    loaded,             \* what has been read from the model file and the triplets file
    metric              \* the metric function main() evaluates with

tvars == <<pc, status, n_users, user_nr, stop_flag, training_complete,
           handler_installed, stop_training, epoch, batch, n_batches,
           batches_trained, accuracies, FARs, FRRs, sigints, intr_at, stop_user>>

mvars == <<mpc, fn, y_true, y_pred, y_true0, y_pred0, ensemble_size, counters, result>>

svars == <<spc, triplets_is_file, model_is_file, ensemble, read_batches, loaded, metric>>

vars == <<tvars, mvars, svars>>

\* ---------------------------------------------------- per-user trainer

\* A callback that never asks the fit loop to stop.
on_batch_end_ignoring_flag(flag, stopping) ==
    stopping

\* TerminateOnFlag.on_batch_end: the new value of model.stop_training.
on_batch_end(flag, stopping) ==
    IF flag THEN TRUE ELSE stopping

\* A handler that flags stop_flag whatever training_complete is.
handler_always_flagging(complete, flag) ==
    [stop_flag |-> TRUE, exit |-> FALSE]

\* handler(signum, frame): the new stop_flag, and whether exit() is called.
handler(complete, flag) ==
    IF ~complete
    THEN [stop_flag |-> TRUE, exit |-> FALSE]
    ELSE [stop_flag |-> flag, exit |-> TRUE]

\* The metric functions' variables while no metric function is in use.
MetricIdle ==
    /\ mpc = "idle"
    /\ fn = "none"
    /\ y_true = << >>
    /\ y_pred = << >>
    /\ y_true0 = << >>
    /\ y_pred0 = << >>
    /\ ensemble_size = 1
    /\ counters = [correct |-> 0, FAR_errors |-> 0, FRR_errors |-> 0]
    /\ result = [kind |-> "none"]

\* The siamese trainer's variables while it is not what runs.
SiameseIdle ==
    /\ spc = "idle"
    /\ triplets_is_file = FALSE
    /\ model_is_file = FALSE
    /\ ensemble = 1
    /\ read_batches = FALSE
    /\ loaded = {}
    /\ metric = "none"

TrainerInit ==
    /\ pc = "loop"
    /\ status = "running"
    /\ n_users \in 0 .. MaxUsers
    /\ user_nr = 0
    /\ stop_flag = FALSE
    /\ training_complete = FALSE
    /\ handler_installed = FALSE
    /\ stop_training = FALSE
    /\ epoch = 0
    /\ batch = 0
    /\ n_batches = 1
    /\ batches_trained = [u \in 0 .. (MaxUsers - 1) |-> 0]
    /\ accuracies = << >>
    /\ FARs = << >>
    /\ FRRs = << >>
    /\ sigints = 0
    /\ intr_at = [u \in 0 .. (MaxUsers - 1) |-> -1]
    /\ stop_user = -1

\* for user_nr in range(n_users): load and shuffle the data, build and compile the model.
LoadUser ==
    /\ status = "running" /\ pc = "loop" /\ user_nr < n_users
    /\ UNCHANGED <<mvars, svars>>
    /\ \E nb \in 1 .. MaxBatches : n_batches' = nb
    /\ pc' = "setup"
    /\ UNCHANGED <<status, n_users, user_nr, stop_flag, training_complete,
                   handler_installed, stop_training, epoch, batch,
                   batches_trained, accuracies, FARs, FRRs, sigints, intr_at, stop_user>>

\* setup_callbacks: installs the SIGINT handler, builds the callback list.
setup_callbacks ==
    /\ status = "running" /\ pc = "setup"
    /\ UNCHANGED <<mvars, svars>>
    /\ handler_installed' = TRUE
    /\ pc' = "fit_begin"
    /\ UNCHANGED <<status, n_users, user_nr, stop_flag, training_complete,
                   stop_training, epoch, batch, n_batches,
                   batches_trained, accuracies, FARs, FRRs, sigints, intr_at, stop_user>>

\* model.fit(...) is entered: fit clears model.stop_training and starts epoch 0.
FitBegin ==
    /\ status = "running" /\ pc = "fit_begin"
    /\ UNCHANGED <<mvars, svars>>
    /\ stop_training' = FALSE
    /\ epoch' = 0
    /\ batch' = 0
    /\ pc' = "fit"
    /\ UNCHANGED <<status, n_users, user_nr, stop_flag, training_complete,
                   handler_installed, n_batches,
                   batches_trained, accuracies, FARs, FRRs, sigints, intr_at, stop_user>>

\* One batch of model.fit completes; the callbacks' on_batch_end run; fit
\* leaves its loops when model.stop_training is set, or after the last batch
\* of the last epoch.
FitBatch ==
    /\ status = "running" /\ pc = "fit"
    /\ UNCHANGED <<mvars, svars>>
    /\ batches_trained' = [batches_trained EXCEPT ![user_nr] = @ + 1]
    /\ stop_training' = on_batch_end(stop_flag, stop_training)
    /\ IF stop_training'
       THEN pc' = "fit_done" /\ UNCHANGED <<epoch, batch>>
       ELSE IF batch + 1 < n_batches
       THEN pc' = pc /\ batch' = batch + 1 /\ epoch' = epoch
       ELSE IF epoch + 1 < EPOCHS
       THEN pc' = pc /\ batch' = 0 /\ epoch' = epoch + 1
       ELSE pc' = "fit_done" /\ UNCHANGED <<epoch, batch>>
    /\ UNCHANGED <<status, n_users, user_nr, stop_flag, training_complete,
                   handler_installed, n_batches,
                   accuracies, FARs, FRRs, sigints, intr_at, stop_user>>

\* model.fit has returned: training_complete = True.
FitReturn ==
    /\ status = "running" /\ pc = "fit_done"
    /\ UNCHANGED <<mvars, svars>>
    /\ training_complete' = TRUE
    /\ pc' = "evaluate"
    /\ UNCHANGED <<status, n_users, user_nr, stop_flag,
                   handler_installed, stop_training, epoch, batch, n_batches,
                   batches_trained, accuracies, FARs, FRRs, sigints, intr_at, stop_user>>

\* What evaluating user u's model yields: a value of the model state at that
\* time (the number of batches it was trained for).  The test partition is
\* taken to hold both classes, as a user partition does.
Evaluated(u) == [user |-> u, trained |-> batches_trained[u]]

\* An evaluation step that treats an interrupted fit as an error and exits.
Evaluate_aborting_when_interrupted ==
    /\ status = "running" /\ pc = "evaluate"
    /\ UNCHANGED <<mvars, svars>>
    /\ IF stop_training
       THEN status' = "exited" /\ UNCHANGED <<accuracies, FARs, FRRs, user_nr, pc>>
       ELSE /\ accuracies' = Append(accuracies, Evaluated(user_nr))
            /\ FARs' = Append(FARs, Evaluated(user_nr))
            /\ FRRs' = Append(FRRs, Evaluated(user_nr))
            /\ user_nr' = user_nr + 1
            /\ pc' = "loop"
            /\ status' = status
    /\ UNCHANGED <<n_users, stop_flag, training_complete,
                   handler_installed, stop_training, epoch, batch, n_batches,
                   batches_trained, sigints, intr_at, stop_user>>

\* Load the test data, model.evaluate, compute_FAR_FRR, append the results.
Evaluate ==
    /\ status = "running" /\ pc = "evaluate"
    /\ UNCHANGED <<mvars, svars>>
    /\ accuracies' = Append(accuracies, Evaluated(user_nr))
    /\ FARs' = Append(FARs, Evaluated(user_nr))
    /\ FRRs' = Append(FRRs, Evaluated(user_nr))
    /\ user_nr' = user_nr + 1
    /\ pc' = "loop"
    /\ UNCHANGED <<status, n_users, stop_flag, training_complete,
                   handler_installed, stop_training, epoch, batch, n_batches,
                   batches_trained, sigints, intr_at, stop_user>>

\* The loop over the users is over: the total results are printed.
Finish ==
    /\ status = "running" /\ pc = "loop" /\ user_nr = n_users
    /\ UNCHANGED <<mvars, svars>>
    /\ status' = "finished"
    /\ UNCHANGED <<pc, n_users, user_nr, stop_flag, training_complete,
                   handler_installed, stop_training, epoch, batch, n_batches,
                   batches_trained, accuracies, FARs, FRRs, sigints, intr_at, stop_user>>

\* A SIGINT is delivered.  Before setup_callbacks has installed handler,
\* Python's default handler raises KeyboardInterrupt in main(), which ends
\* the process; afterwards handler runs.
Sigint ==
    /\ status = "running"
    /\ UNCHANGED <<mvars, svars>>
    /\ sigints < MaxSigints
    /\ sigints' = sigints + 1
    /\ IF ~handler_installed
       THEN status' = "killed" /\ stop_flag' = stop_flag
       ELSE LET h == handler(training_complete, stop_flag) IN
            /\ stop_flag' = h.stop_flag
            /\ status' = IF h.exit THEN "exited" ELSE status
    /\ intr_at' = IF pc = "fit" /\ intr_at[user_nr] = -1
                  THEN [intr_at EXCEPT ![user_nr] = batches_trained[user_nr]]
                  ELSE intr_at
    /\ stop_user' = IF stop_flag' /\ ~stop_flag THEN user_nr ELSE stop_user
    /\ UNCHANGED <<pc, n_users, user_nr, training_complete,
                   handler_installed, stop_training, epoch, batch, n_batches,
                   batches_trained, accuracies, FARs, FRRs>>

\* The steps of main().
MainStep ==
    \/ LoadUser
    \/ setup_callbacks
    \/ FitBegin
    \/ FitBatch
    \/ FitReturn
    \/ Evaluate
    \/ Finish

Init == TrainerInit /\ MetricIdle /\ SiameseIdle

Next ==
    \/ LoadUser
    \/ setup_callbacks
    \/ FitBegin
    \/ FitBatch
    \/ FitReturn
    \/ Evaluate
    \/ Finish
    \/ Sigint

Spec == Init /\ [][Next]_vars

\* main() is the process's one thread: while the process runs it takes its
\* next step.  Nothing obliges a SIGINT to arrive.
FairSpec == Init /\ [][Next]_vars /\ WF_vars(MainStep)

\* ------------------------------------------------- metric functions
\* siamese_nn.py.  Labels are 0 or 1; a score p stands for p / 10.  A float
\* quotient a / b is kept as the pair <<a, b>>; with b = 0 it is numpy's
\* nan (a = 0) or infinity.

\* The trainer's variables while the trainer is not what runs.
TrainerIdle ==
    /\ pc = "idle"
    /\ status = "idle"
    /\ n_users = 0
    /\ user_nr = 0
    /\ stop_flag = FALSE
    /\ training_complete = FALSE
    /\ handler_installed = FALSE
    /\ stop_training = FALSE
    /\ epoch = 0
    /\ batch = 0
    /\ n_batches = 1
    /\ batches_trained = [u \in 0 .. (MaxUsers - 1) |-> 0]
    /\ accuracies = << >>
    /\ FARs = << >>
    /\ FRRs = << >>
    /\ sigints = 0
    /\ intr_at = [u \in 0 .. (MaxUsers - 1) |-> -1]
    /\ stop_user = -1

\* Scores given to accuracy_FAR_FRR: 0.0, 0.1, 0.2, 0.5 (the tie), 0.8, 0.9, 1.0.
Scores == {0, 1, 2, 5, 8, 9, 10}
\* Scores given when either function may be called: 0.0, 0.6, 1.0.
EnsScores == {0, 6, 10}

Arrays(len, values) == UNION {[1 .. n -> values] : n \in 0 .. len}

\* Rounding that sends the tie 0.5 up.
np_round_half_up(p) ==
    IF p >= 5 THEN 1 ELSE 0

\* np.round on a score in [0, 1]: to the nearest integer, the tie 0.5 to the
\* even one, 0.
np_round(p) ==
    IF p > 5 THEN 1 ELSE 0

RECURSIVE np_sum(_)
\* np.sum(y_true)
np_sum(a) ==
    IF a = << >> THEN 0 ELSE a[1] + np_sum(Tail(a))

\* float(a) / b with b a Python int: ZeroDivisionError when b is 0.
float_div_int(a, b) ==
    IF b = 0 THEN [ok |-> FALSE, q |-> <<a, b>>] ELSE [ok |-> TRUE, q |-> <<a, b>>]

\* A division by a numpy scalar that raised as Python's does.
float_div_np_raising(a, b) ==
    IF b = 0 THEN [ok |-> FALSE, q |-> <<a, b>>] ELSE [ok |-> TRUE, q |-> <<a, b>>]

\* float(a) / b with b a numpy scalar (the value of an expression over
\* np.sum): numpy's division, which warns and yields nan or inf when b is 0.
float_div_np(a, b) ==
    [ok |-> TRUE, q |-> <<a, b>>]

Raise(e) == [kind |-> "raise", error |-> e]

\* The three quotients as the returned tuple, or the first division's exception.
Rates(acc, far, frr) ==
    IF ~acc.ok \/ ~far.ok \/ ~frr.ok
    THEN Raise("ZeroDivisionError")
    ELSE [kind |-> "return", accuracy |-> acc.q, FAR |-> far.q, FRR |-> frr.q]

\* The if / elif / elif of both loops: label t against decision d.
Tally(c, t, d) ==
    IF t = d THEN [c EXCEPT !.correct = @ + 1]
    ELSE IF t = 0 /\ d = 1 THEN [c EXCEPT !.FAR_errors = @ + 1]
    ELSE IF t = 1 /\ d = 0 THEN [c EXCEPT !.FRR_errors = @ + 1]
    ELSE c

NoCounts == [correct |-> 0, FAR_errors |-> 0, FRR_errors |-> 0]

RECURSIVE AccuracyLoop(_, _, _, _)
\* accuracy_FAR_FRR's loop, for i in range(n_examples), from index i (0-based) on.
AccuracyLoop(yt, yp, i, c) ==
    IF i >= Len(yt) THEN c
    ELSE AccuracyLoop(yt, yp, i + 1, Tally(c, yt[i + 1], np_round(yp[i + 1])))

\* accuracy_FAR_FRR(y_true, y_pred)
accuracy_FAR_FRR(yt, yp) ==
    LET n_examples == Len(yt)
        c == AccuracyLoop(yt, yp, 0, NoCounts)
    IN  [counters |-> c,
         result |-> Rates(float_div_int(c.correct, n_examples),
                          float_div_np(c.FAR_errors, n_examples - np_sum(yt)),
                          float_div_np(c.FRR_errors, np_sum(yt)))]

\* siamese_nn.py: n_actual_examples = len(range(0, n_examples, 9))
RangeStep == 9

RECURSIVE WindowSum(_, _, _)
\* sum of np.round(y_pred[i + ii]) for ii in range(k)
WindowSum(yp, i, k) ==
    IF k = 0 THEN 0 ELSE np_round(yp[i + k]) + WindowSum(yp, i, k - 1)

RECURSIVE EnsembleLoop(_, _, _, _, _)
\* ensemble_accuracy_FAR_FRR's loop, for i in range(0, n_examples - ensemble_size,
\* ensemble_size - 1), from i (0-based) on: the decision is written to y_pred[i].
EnsembleLoop(yt, yp, e, i, c) ==
    IF i >= Len(yt) - e THEN [y_pred |-> yp, counters |-> c]
    ELSE LET sum == WindowSum(yp, i, e - 1)
             decision == IF sum > (e \div 2) THEN 1 ELSE 0
             written == [yp EXCEPT ![i + 1] = 10 * decision]
         IN  EnsembleLoop(yt, written, e, i + (e - 1), Tally(c, yt[i + 1], decision))

\* ensemble_accuracy_FAR_FRR(y_true, y_pred, ensemble_size), ensemble_size > 1
ensemble_accuracy_FAR_FRR(yt, yp, e) ==
    LET n_examples == Len(yt)
        n_actual_examples == (n_examples + RangeStep - 1) \div RangeStep
        loop == EnsembleLoop(yt, yp, e, 0, NoCounts)
        c == loop.counters
        positives == np_sum(yt) \div (e - 1)
    IN  [y_pred |-> loop.y_pred,
         counters |-> c,
         result |-> Rates(float_div_int(c.correct, n_actual_examples),
                          float_div_int(c.FAR_errors, n_actual_examples - positives),
                          float_div_int(c.FRR_errors, positives))]

\* The caller has its label and score arrays; nothing is called yet.
MetricInput(len, values, sizes) ==
    /\ mpc = "input"
    /\ fn = "none"
    /\ y_true \in Arrays(len, {0, 1})
    /\ y_pred \in [1 .. Len(y_true) -> values]
    /\ y_true0 = y_true
    /\ y_pred0 = y_pred
    /\ ensemble_size \in sizes
    /\ counters = NoCounts
    /\ result = [kind |-> "none"]

\* accuracy, FAR, FRR = accuracy_FAR_FRR(y_valid, y_pred)
CallAccuracy ==
    /\ mpc = "input"
    /\ LET r == accuracy_FAR_FRR(y_true, y_pred) IN
       /\ counters' = r.counters
       /\ result' = r.result
    /\ fn' = "accuracy_FAR_FRR"
    /\ mpc' = "returned"
    /\ UNCHANGED <<y_true, y_pred, y_true0, y_pred0, ensemble_size>>
    /\ UNCHANGED <<tvars, svars>>

\* accuracy, FAR, FRR = ensemble_accuracy_FAR_FRR(y_valid, y_pred, args.ensemble)
CallEnsemble ==
    /\ mpc = "input"
    /\ ensemble_size > 1
    /\ LET r == ensemble_accuracy_FAR_FRR(y_true, y_pred, ensemble_size) IN
       /\ y_pred' = r.y_pred
       /\ counters' = r.counters
       /\ result' = r.result
    /\ fn' = "ensemble_accuracy_FAR_FRR"
    /\ mpc' = "returned"
    /\ UNCHANGED <<y_true, y_true0, y_pred0, ensemble_size>>
    /\ UNCHANGED <<tvars, svars>>

AccuracyInit == TrainerIdle /\ SiameseIdle /\ MetricInput(MaxLen, Scores, {1})

AccuracyNext == CallAccuracy

\* accuracy_FAR_FRR applied to every pair of arrays within the bounds.
SpecAccuracy == AccuracyInit /\ [][AccuracyNext]_vars

MetricInit == TrainerIdle /\ SiameseIdle /\ MetricInput(MaxEnsLen, EnsScores, 2 .. MaxEnsemble)

MetricNext ==
    \/ CallAccuracy
    \/ CallEnsemble

\* Either metric function applied to every pair of arrays within the bounds.
SpecMetric == MetricInit /\ [][MetricNext]_vars

\* ------------------------------------------- siamese trainer's main()

\* siamese_nn.py, parse_args: assert args.ensemble <= 100
ENSEMBLE_LIMIT == 100

\* A check that lets one ensemble value too many through.
parse_args_off_by_one(triplets, model, e) ==
    IF ~triplets THEN "AssertionError"
    ELSE IF ~model THEN "AssertionError"
    ELSE IF ~(e <= ENSEMBLE_LIMIT + 1) THEN "AssertionError"
    ELSE "ok"

\* parse_args(args): the three asserts, in order.
parse_args(triplets, model, e) ==
    IF ~triplets THEN "AssertionError"
    ELSE IF ~model THEN "AssertionError"
    ELSE IF ~(e <= ENSEMBLE_LIMIT) THEN "AssertionError"
    ELSE "ok"

SiameseInit ==
    /\ spc = "parse_args"
    /\ triplets_is_file \in BOOLEAN
    /\ model_is_file \in BOOLEAN
    /\ ensemble \in 0 .. MaxEnsembleArg
    /\ read_batches \in BOOLEAN
    /\ loaded = {}
    /\ metric = "none"

\* main(): parse_args(args) after the argument parser; a failed assert ends the run.
ParseArgs ==
    /\ spc = "parse_args"
    /\ spc' = IF parse_args(triplets_is_file, model_is_file, ensemble) = "ok"
              THEN "load_model" ELSE "rejected"
    /\ UNCHANGED <<triplets_is_file, model_is_file, ensemble, read_batches, loaded, metric>>
    /\ UNCHANGED <<tvars, mvars>>

\* tower_model = load_model(args.model_path), compiled.
LoadModel ==
    /\ spc = "load_model"
    /\ loaded' = loaded \cup {"tower_model"}
    /\ spc' = "get_shapes"
    /\ UNCHANGED <<triplets_is_file, model_is_file, ensemble, read_batches, metric>>
    /\ UNCHANGED <<tvars, mvars>>

\* utils.get_shapes(args.triplets_path, ...), build_pair_distance_model.
GetShapes ==
    /\ spc = "get_shapes"
    /\ loaded' = loaded \cup {"shapes"}
    /\ spc' = "load_data"
    /\ UNCHANGED <<triplets_is_file, model_is_file, ensemble, read_batches, metric>>
    /\ UNCHANGED <<tvars, mvars>>

\* The triplets are read at once, or in batches by generators, and the pair
\* distances predicted.
LoadData ==
    /\ spc = "load_data"
    /\ loaded' = loaded \cup (IF ~read_batches THEN {"triplets"} ELSE {"batches"})
    /\ spc' = "train"
    /\ UNCHANGED <<triplets_is_file, model_is_file, ensemble, read_batches, metric>>
    /\ UNCHANGED <<tvars, mvars>>

\* Stack, shuffle, build the classifier, nn_model.fit.
Train ==
    /\ spc = "train"
    /\ spc' = "evaluate"
    /\ UNCHANGED <<triplets_is_file, model_is_file, ensemble, read_batches, loaded, metric>>
    /\ UNCHANGED <<tvars, mvars>>

\* nn_model.predict, then the metric function args.ensemble selects.
EvaluateModel ==
    /\ spc = "evaluate"
    /\ metric' = IF ensemble > 1 THEN "ensemble_accuracy_FAR_FRR" ELSE "accuracy_FAR_FRR"
    /\ spc' = "done"
    /\ UNCHANGED <<triplets_is_file, model_is_file, ensemble, read_batches, loaded>>
    /\ UNCHANGED <<tvars, mvars>>

SiameseNext ==
    \/ ParseArgs
    \/ LoadModel
    \/ GetShapes
    \/ LoadData
    \/ Train
    \/ EvaluateModel

SiameseStart == TrainerIdle /\ MetricIdle /\ SiameseInit

\* One run of the siamese trainer for every command line within the bounds.
SpecSiamese == SiameseStart /\ [][SiameseNext]_vars

\* --------------------------------------- claims: the metric functions

\* The quotient q is a real number and equals a / b.
RatEq(q, a, b) == q[2] # 0 /\ b # 0 /\ q[1] * b = a * q[2]

\* The quotient q is nan: 0.0 / 0.
IsNaN(q) == q = <<0, 0>>

\* A score rounded to the nearest integer, the tie 0.5 to the even integer 0.
Rounded(p) == IF 2 * p > 10 THEN 1 ELSE 0

HasLabel(yt, l) == \E i \in 1 .. Len(yt) : yt[i] = l

AccuracyReturned == mpc = "returned" /\ fn = "accuracy_FAR_FRR"

EnsembleReturned == mpc = "returned" /\ fn = "ensemble_accuracy_FAR_FRR"

\* C4: with both classes in y_true, accuracy_FAR_FRR returns accuracy =
\* (labels equal to the rounded score) / n, FAR = (label 0, rounded score 1) /
\* (labels 0) and FRR = (label 1, rounded score 0) / (labels 1); y_true =
\* [1,1,0,0] with y_pred = [0.9,0.2,0.1,0.8] gives (0.5, 0.5, 0.5).
C4_AccuracyFarFrr ==
    (AccuracyReturned /\ HasLabel(y_true0, 0) /\ HasLabel(y_true0, 1)) =>
        LET I == 1 .. Len(y_true0)
            agree == {i \in I : y_true0[i] = Rounded(y_pred0[i])}
            negatives == {i \in I : y_true0[i] = 0}
            positives == {i \in I : y_true0[i] = 1}
            accepted == {i \in negatives : Rounded(y_pred0[i]) = 1}
            rejected == {i \in positives : Rounded(y_pred0[i]) = 0}
        IN  /\ result.kind = "return"
            /\ RatEq(result.accuracy, Cardinality(agree), Len(y_true0))
            /\ RatEq(result.FAR, Cardinality(accepted), Cardinality(negatives))
            /\ RatEq(result.FRR, Cardinality(rejected), Cardinality(positives))
            /\ (y_true0 = <<1, 1, 0, 0>> /\ y_pred0 = <<9, 2, 1, 8>>) =>
                  /\ RatEq(result.accuracy, 1, 2)
                  /\ RatEq(result.FAR, 1, 2)
                  /\ RatEq(result.FRR, 1, 2)

\* C4's case: the worked example has been computed.
C4_Witness ==
    /\ AccuracyReturned
    /\ y_true0 = <<1, 1, 0, 0>> /\ y_pred0 = <<9, 2, 1, 8>>
    /\ result.kind = "return"
    /\ result.accuracy = <<2, 4>> /\ result.FAR = <<1, 2>> /\ result.FRR = <<1, 2>>

\* C8 as stated: with a class absent from y_true, accuracy_FAR_FRR raises a
\* division-by-zero error and returns nothing.
C8_RaisesWhenClassAbsent ==
    (AccuracyReturned /\ (~HasLabel(y_true0, 0) \/ ~HasLabel(y_true0, 1))) =>
        (result.kind = "raise" /\ result.error = "ZeroDivisionError")

\* C8, amended: accuracy_FAR_FRR raises ZeroDivisionError only for an empty
\* y_true; for a non-empty y_true with a class absent it returns, with nan as
\* the rate whose denominator is zero (FAR without label 0, FRR without label 1).
C8_NanWhenClassAbsent ==
    AccuracyReturned =>
        /\ (result.kind = "raise") <=> (y_true0 = << >>)
        /\ result.kind = "raise" => result.error = "ZeroDivisionError"
        /\ (y_true0 # << >> /\ ~HasLabel(y_true0, 0)) =>
              (IsNaN(result.FAR) /\ RatEq(result.FRR, counters.FRR_errors, Len(y_true0)))
        /\ (y_true0 # << >> /\ ~HasLabel(y_true0, 1)) =>
              (IsNaN(result.FRR) /\ RatEq(result.FAR, counters.FAR_errors, Len(y_true0)))

\* C8's case: every label is 1, and the call returned with FAR nan.
C8_Witness ==
    /\ AccuracyReturned
    /\ y_true0 = <<1, 1>>
    /\ result.kind = "return"
    /\ IsNaN(result.FAR)

\* The starts (0-based) of the windows ensemble_accuracy_FAR_FRR evaluates.
Windows ==
    {i \in 0 .. (Len(y_true0) - 1) :
        i % (ensemble_size - 1) = 0 /\ i < Len(y_true0) - ensemble_size}

\* The strict majority of the ensemble_size - 1 rounded scores of the window at i.
Majority(i) ==
    LET s == ensemble_size - 1
        ones == {j \in (i + 1) .. (i + s) : Rounded(y_pred0[j]) = 1}
    IN  IF 2 * Cardinality(ones) > s THEN 1 ELSE 0

\* C5: each window's decision is 1 exactly when strictly more than half of
\* its ensemble_size - 1 rounded scores are 1, and the window counts as
\* correct, false accept or false reject by that decision against y_true[i].
C5_StrictMajorityPerWindow ==
    EnsembleReturned =>
        /\ \A i \in Windows : y_pred[i + 1] = 10 * Majority(i)
        /\ counters.correct = Cardinality({i \in Windows : y_true0[i + 1] = Majority(i)})
        /\ counters.FAR_errors =
              Cardinality({i \in Windows : y_true0[i + 1] = 0 /\ Majority(i) = 1})
        /\ counters.FRR_errors =
              Cardinality({i \in Windows : y_true0[i + 1] = 1 /\ Majority(i) = 0})

\* y_true is a run of 1s followed by a run of 0s, and no window holds both labels.
SessionContiguous ==
    /\ \A i, j \in 1 .. Len(y_true0) : (i < j /\ y_true0[i] = 0) => y_true0[j] = 0
    /\ \A i \in Windows : \A j \in (i + 1) .. (i + ensemble_size - 1) :
          y_true0[j] = y_true0[i + 1]

\* C6: on session-contiguous input with windows of both leading labels,
\* accuracy = correct windows / windows evaluated, FAR = false-accept windows
\* / windows led by 0, FRR = false-reject windows / windows led by 1, and the
\* three counts sum to the number of windows.
C6_RatesOverWindows ==
    LET led0 == {i \in Windows : y_true0[i + 1] = 0}
        led1 == {i \in Windows : y_true0[i + 1] = 1}
    IN  (EnsembleReturned /\ SessionContiguous /\ led0 # {} /\ led1 # {}) =>
            /\ result.kind = "return"
            /\ RatEq(result.accuracy, counters.correct, Cardinality(Windows))
            /\ RatEq(result.FAR, counters.FAR_errors, Cardinality(led0))
            /\ RatEq(result.FRR, counters.FRR_errors, Cardinality(led1))
            /\ counters.correct + counters.FAR_errors + counters.FRR_errors
                  = Cardinality(Windows)

\* C7: after a call to either metric function the caller's y_true and y_pred
\* hold what they held before it.
C7_MetricsArePure ==
    mpc = "returned" => (y_true = y_true0 /\ y_pred = y_pred0)

\* ---------------------------------------- claims: the siamese trainer

ValidArgs == triplets_is_file /\ model_is_file /\ ensemble <= 100

\* C9: a run with ensemble > 100, or without its triplets file or its model
\* file, is rejected with nothing loaded; nothing is loaded before the
\* arguments are checked; a run whose files exist and whose ensemble is at
\* most 100 (100 included) is not rejected.
C9_ArgumentsCheckedFirst ==
    /\ spc = "parse_args" => loaded = {}
    /\ spc = "rejected" => (~ValidArgs /\ loaded = {})
    /\ (spc \notin {"parse_args", "rejected"} \/ loaded # {}) => ValidArgs
    /\ (~ValidArgs /\ spc # "parse_args") => spc = "rejected"

\* C9's case: ensemble = 101 with both files present was rejected before
\* anything was loaded.
C9_Witness ==
    /\ spc = "rejected"
    /\ ensemble = 101 /\ triplets_is_file /\ model_is_file
    /\ loaded = {}

\* The accepted side of C9's boundary: ensemble = 100 with both files present
\* has reached the loading of the tower model.
C9_AcceptedAtLimit ==
    ensemble = 100 /\ triplets_is_file /\ model_is_file /\ "tower_model" \in loaded

\* ------------------------------------------------- claims: the trainer

AllUsers == 0 .. (MaxUsers - 1)

\* User u's fit has returned.
FitFinished(u) == user_nr > u \/ (user_nr = u /\ pc \in {"fit_done", "evaluate"})

\* User u's test results are in the three result lists, computed from the
\* model as its fit left it.
Recorded(u) ==
    /\ Len(accuracies) > u /\ Len(FARs) > u /\ Len(FRRs) > u
    /\ accuracies[u + 1] = Evaluated(u)
    /\ FARs[u + 1] = Evaluated(u)
    /\ FRRs[u + 1] = Evaluated(u)

\* C1: for every user, a SIGINT delivered while that user's fit loop runs sets
\* stop_flag and leaves the process running, and the fit trains exactly the
\* batch in flight and no further one.
C1_InterruptStopsFitAtBatchBoundary ==
    /\ [][(pc = "fit" /\ sigints' # sigints) => (status' = "running" /\ stop_flag')]_vars
    /\ [](\A u \in AllUsers :
            intr_at[u] # -1 =>
                /\ batches_trained[u] <= intr_at[u] + 1
                /\ (FitFinished(u) => batches_trained[u] = intr_at[u] + 1))

\* C2: once a fit loop has been stopped by the flag, and no further SIGINT
\* arrives, the user's partially trained model is evaluated and its accuracy,
\* FAR and FRR are recorded with the process still running; the process ends
\* abnormally only on a SIGINT.
C2_InterruptedFitIsEvaluated ==
    /\ \A u \in AllUsers : \A k \in 0 .. MaxSigints :
          (pc = "fit_done" /\ user_nr = u /\ stop_training /\ status = "running" /\ sigints = k)
              ~> ((Recorded(u) /\ status \in {"running", "finished"}) \/ sigints > k)
    /\ [][(status = "running" /\ status' \in {"exited", "killed"}) => sigints' # sigints]_vars

\* C2's case: user 0's fit was interrupted, stopped one batch later, short of
\* its full length, and the user's results are recorded.
C2_Witness ==
    /\ intr_at[0] # -1
    /\ Recorded(0)
    /\ accuracies[1].trained = intr_at[0] + 1
    /\ accuracies[1].trained < EPOCHS
    /\ status = "finished"

\* C3: with training_complete true a SIGINT ends the process and leaves
\* stop_flag alone; training_complete is true from the return of the first
\* user's fit on and is never reset.
C3_InterruptAfterTrainingExits ==
    /\ [][(sigints' # sigints /\ training_complete)
             => (status' = "exited" /\ stop_flag' = stop_flag)]_vars
    /\ [][training_complete => training_complete']_vars
    /\ []((pc = "evaluate" \/ user_nr > 0) => training_complete)

\* C3's case: a SIGINT during a later user's setup has ended the run.
C3_Witness ==
    status = "exited" /\ pc = "setup" /\ user_nr = 1 /\ ~stop_flag

====
